---- MODULE Spec2Model ----
(***************************************************************************)
(* The polling session of one DataTables table under the liveAjax plugin   *)
(* (src/dataTables.liveAjax.js, version 1.1.0): the setTimeout loop, the   *)
(* gate in front of every XHR request, the pause flag, the interval and    *)
(* the API methods that act on them.                                       *)
(*                                                                         *)
(* JavaScript runs every handler to completion, so each handler is one     *)
(* action.  Inside an action the statements of the handler are composed as *)
(* functions on a record of the session's state (Cur is the state at the   *)
(* start of the handler, Commit writes the final record back).             *)
(***************************************************************************)
EXTENDS Integers, FiniteSets, Sequences, TLC

\* Bounds of the model: pending timers and XHR requests in flight.
MaxTimers == 2
MaxOutstanding == 2

\* $.ajax().readyState values.
XHR_STATE_NOT_INIT == 0
XHR_STATE_SETUP == 1
XHR_STATE_COMPLETE == 4

\* Minimum setTimeout interval (in MS).
_minInterval == 1500

\* Rows in a response.
MaxRows == 2

\* The largest array index among the property names of the model.
MaxKey == 9

\* dtSettings.jqXHR === undefined, and updateLoop: null.
NoXhr == 0
NoTimer == 0

(***************************************************************************)
(* JavaScript values, tagged with what typeof says of them.                *)
(***************************************************************************)
JsUndefined == [type |-> "undefined"]
JsNull == [type |-> "object", isNull |-> TRUE]
JsBoolean(b) == [type |-> "boolean", bool |-> b]
JsNumber(n) == [type |-> "number", num |-> n]
JsString(s) == [type |-> "string", str |-> s]
JsFunction(f) == [type |-> "function", name |-> f]
JsArray(a) == [type |-> "object", isArray |-> TRUE, elems |-> a]
JsObject(p) == [type |-> "object", isArray |-> FALSE, props |-> p]
JsTrue == JsBoolean(TRUE)
JsFalse == JsBoolean(FALSE)

typeof(v) == v.type

isPlainObject(v) == v.type = "object" /\ "props" \in DOMAIN v

\* parseInt of a number is the number with its fraction dropped; the
\* intervals of the model are integers.
parseInt(v) == v.num

(***************************************************************************)
(* Row data.  An object whose property order matters (a row, the keyed     *)
(* structure of _fnKeyStructData, the update map) is the sequence of its   *)
(* own properties in the order JavaScript enumerates them: the array-index *)
(* names ("0", "1", ...) in ascending numeric order first, then the other  *)
(* names in the order they were added.  An array is a sequence.            *)
(***************************************************************************)
Prop(name, value) == [name |-> name, value |-> value]

HasOwn(obj, name) == \E i \in DOMAIN obj : obj[i].name = name

\* obj[ name ]
Get(obj, name) ==
    IF HasOwn(obj, name)
    THEN obj[CHOOSE i \in DOMAIN obj : obj[i].name = name].value
    ELSE JsUndefined

\* String( v ), the property name a value is turned into.
String(v) == IF typeof(v) = "number" THEN ToString(v.num) ELSE v.str

\* A property name that is an array index, and the number it stands for.
IsArrayIndex(name) == \E n \in 0..MaxKey : ToString(n) = name
ArrayIndex(name) == CHOOSE n \in 0..MaxKey : ToString(n) = name

\* name comes before the property q in the enumeration order, name being new.
EnumeratesBefore(name, q) ==
    /\ IsArrayIndex(name)
    /\ IsArrayIndex(q.name) => ArrayIndex(name) < ArrayIndex(q.name)

\* obj[ name ] = value
Put(obj, name, value) ==
    IF HasOwn(obj, name)
    THEN [i \in DOMAIN obj |-> IF obj[i].name = name THEN Prop(name, value) ELSE obj[i]]
    ELSE LET before == {i \in DOMAIN obj : ~ EnumeratesBefore(name, obj[i])}
             n == Cardinality(before)
         IN [i \in 1..(Len(obj) + 1) |->
                IF i <= n THEN obj[i]
                ELSE IF i = n + 1 THEN Prop(name, value)
                ELSE obj[i - 1]]

\* delete obj[ name ]
Delete(obj, name) == SelectSeq(obj, LAMBDA q : q.name # name)

\* JSON.stringify of a number or a string, of an object of such values and
\* of an array of such objects.
StringifyValue(v) ==
    IF typeof(v) = "number" THEN ToString(v.num) ELSE ToString(v.str)

RECURSIVE StringifyProps(_)
StringifyProps(obj) ==
    IF obj = << >> THEN ""
    ELSE ToString(Head(obj).name) \o ":" \o StringifyValue(Head(obj).value)
         \o (IF Len(obj) > 1 THEN "," ELSE "") \o StringifyProps(Tail(obj))

JSONstringify(obj) == "{" \o StringifyProps(obj) \o "}"

RECURSIVE StringifyElems(_)
StringifyElems(arr) ==
    IF arr = << >> THEN ""
    ELSE JSONstringify(Head(arr))
         \o (IF Len(arr) > 1 THEN "," ELSE "") \o StringifyElems(Tail(arr))

JSONstringifyArray(arr) == "[" \o StringifyElems(arr) \o "]"

(***************************************************************************)
(* The reconciler (lines 224-298).  A function that can throw returns      *)
(* either Return( value ) or Throw( message ).                             *)
(***************************************************************************)
Return(v) == [threw |-> FALSE, value |-> v]
Throw(msg) == [threw |-> TRUE, error |-> msg]

\* result[ v[ key ] ] = v, for the rows of data from the k-th on.
RECURSIVE KeyStructEach(_, _, _, _)
KeyStructEach(key, data, k, result) ==
    IF k > Len(data) THEN Return(result)
    ELSE IF Get(data[k], key) = JsUndefined
         THEN Throw("Unable to parse data set, key \"" \o key
                    \o "\" not found at instance # " \o ToString(k - 1))
         ELSE KeyStructEach(key, data, k + 1,
                            Put(result, String(Get(data[k], key)), data[k]))

\* An index of the rows that carry the key, the others left out.
_fnKeyStructDataLenient(key, data) ==
    KeyStructEach(key, SelectSeq(data, LAMBDA v : Get(v, key) # JsUndefined), 1, << >>)

\* _fnKeyStructData( key, data ), data an array of plain objects: the
\* $.isArray and $.isPlainObject tests pass on every value of the model.
_fnKeyStructData(key, data) ==
    IF Len(data) = 0 THEN Return(<< >>)
    ELSE IF Get(data[1], key) = JsUndefined
         THEN Throw("Unable to parse data set, key \"" \o key \o "\" not found")
         ELSE KeyStructEach(key, data, 1, << >>)

RECURSIVE GetChangesEachOldRow(_, _, _)
GetChangesEachOldRow(dataA, i, u) ==
    IF i > Len(dataA) THEN u
    ELSE LET k == dataA[i].name
             v == dataA[i].value
             u1 == IF ~ HasOwn(u.dataB, k)
                   THEN [u EXCEPT !.delete = Append(@, k)]
                   ELSE IF JSONstringify(v) # JSONstringify(Get(u.dataB, k))
                        THEN [u EXCEPT !.update = Put(@, k, v)]
                        ELSE u
         IN GetChangesEachOldRow(dataA, i + 1, [u1 EXCEPT !.dataB = Delete(@, k)])

RECURSIVE GetChangesEachKeepB(_, _, _)
GetChangesEachKeepB(dataA, i, u) ==
    IF i > Len(dataA) THEN u
    ELSE LET k == dataA[i].name
             v == dataA[i].value
             u1 == IF ~ HasOwn(u.dataB, k)
                   THEN [u EXCEPT !.delete = Append(@, k)]
                   ELSE IF JSONstringify(v) # JSONstringify(Get(u.dataB, k))
                        THEN [u EXCEPT !.update = Put(@, k, Get(u.dataB, k))]
                        ELSE u
         IN GetChangesEachKeepB(dataA, i + 1, u1)

\* The first $.each of _fnGetChanges, from the i-th property of dataA on;
\* u holds updates.delete, updates.update and what is left of dataB.
RECURSIVE GetChangesEach(_, _, _)
GetChangesEach(dataA, i, u) ==
    IF i > Len(dataA) THEN u
    ELSE LET k == dataA[i].name
             v == dataA[i].value
             u1 == IF ~ HasOwn(u.dataB, k)
                   THEN [u EXCEPT !.delete = Append(@, k)]
                   ELSE IF JSONstringify(v) # JSONstringify(Get(u.dataB, k))
                        THEN [u EXCEPT !.update = Put(@, k, Get(u.dataB, k))]
                        ELSE u
         IN GetChangesEach(dataA, i + 1, [u1 EXCEPT !.dataB = Delete(@, k)])

_fnGetChangesWithoutDelete(dataA, dataB) ==
    LET u == GetChangesEach(dataA, 1, [delete |-> << >>, update |-> << >>, dataB |-> dataB])
        updates == [create |-> [i \in DOMAIN u.dataB |-> u.dataB[i].value],
                    delete |-> << >>,
                    update |-> u.update]
    IN IF Len(updates.create) # 0 \/ Len(updates.update) # 0
       THEN updates
       ELSE JsNull

\* _fnGetChanges( dataA, dataB ): the updates, or null.
_fnGetChanges(dataA, dataB) ==
    LET u == GetChangesEach(dataA, 1, [delete |-> << >>, update |-> << >>, dataB |-> dataB])
        updates == [create |-> [i \in DOMAIN u.dataB |-> u.dataB[i].value],
                    delete |-> u.delete,
                    update |-> u.update]
    IN IF Len(updates.create) # 0 \/ Len(updates.delete) # 0 \/ Len(updates.update) # 0
       THEN updates
       ELSE JsNull

\* The two _fnKeyStructData calls and the _fnGetChanges call of lines
\* 742-745: an Error of the first ends the evaluation.
Reconcile(key, previousData, data) ==
    LET dataA == _fnKeyStructData(key, previousData)
        dataB == _fnKeyStructData(key, data)
    IN IF dataA.threw THEN dataA
       ELSE IF dataB.threw THEN dataB
       ELSE Return(_fnGetChanges(dataA.value, dataB.value))

\* dtSettings.rowId, the name of the property that identifies a row.
rowId == "id"

\* The rows of the model: the identifier a number, a numeric string, another
\* string or missing; two contents under one identifier; one content in two
\* property orders.
Row(id, v) == <<Prop(rowId, id), Prop("v", JsString(v))>>
Rows ==
    {Row(JsNumber(1), "x"),
     Row(JsNumber(1), "y"),
     <<Prop("v", JsString("x")), Prop(rowId, JsNumber(1))>>,
     Row(JsNumber(2), "x"),
     Row(JsString("2"), "x"),
     Row(JsString("b"), "x"),
     <<Prop("v", JsString("x"))>>}

\* json[ dataSrc ]: the arrays of at most MaxRows rows.
Collections == UNION {[1..n -> Rows] : n \in 0..MaxRows}

(***************************************************************************)
(* _processNewJson (lines 717-801).  A response json is the record of its  *)
(* json[ dataSrc ]; d holds previousJson, the configured callbacks and     *)
(* what the function has done: the calls on the DataTables API and the     *)
(* notifications, in order.                                                *)
(***************************************************************************)
Response(data) == [data |-> data]

\* The rows of the responses, and the responses.
ResponseRows ==
    {Row(JsNumber(1), "x"),
     Row(JsNumber(1), "y"),
     Row(JsNumber(2), "x"),
     <<Prop("v", JsString("x"))>>}
Responses == {Response(data) : data \in UNION {[1..n -> ResponseRows] : n \in 0..MaxRows}}

Call(d, call) == [d EXCEPT !.calls = Append(@, call)]

\* $.each( updates.update, ... ): _api.row( '#' + id ).data( data )
RECURSIVE RowDataEach(_, _, _)
RowDataEach(d, update, i) ==
    IF i > Len(update) THEN d
    ELSE RowDataEach(Call(d, [fn |-> "row.data", selector |-> "#" \o update[i].name,
                              data |-> update[i].value]),
                     update, i + 1)

ApplyUpdatesCreateFirst(d, updates) ==
    LET d1 == IF Len(updates.create) # 0
              THEN Call(d, [fn |-> "rows.add", data |-> updates.create])
              ELSE d
        d2 == IF Len(updates.update) # 0 THEN RowDataEach(d1, updates.update, 1) ELSE d1
    IN IF Len(updates.delete) # 0
       THEN Call(d2, [fn |-> "rows.remove",
                      selector |-> [i \in DOMAIN updates.delete |->
                                       "#" \o updates.delete[i]]])
       ELSE d2

\* The updates applied without the removal of the deleted rows.
ApplyUpdatesKeepDeleted(d, updates) ==
    LET d1 == IF Len(updates.update) # 0 THEN RowDataEach(d, updates.update, 1) ELSE d
    IN IF Len(updates.create) # 0
       THEN Call(d1, [fn |-> "rows.add", data |-> updates.create])
       ELSE d1

\* Lines 748-776: the updates applied to the table.
ApplyUpdates(d, updates) ==
    LET d1 == IF Len(updates.update) # 0 THEN RowDataEach(d, updates.update, 1) ELSE d
        d2 == IF Len(updates.delete) # 0
              THEN Call(d1, [fn |-> "rows.remove",
                             selector |-> [i \in DOMAIN updates.delete |->
                                              "#" \o updates.delete[i]]])
              ELSE d1
    IN IF Len(updates.create) # 0
       THEN Call(d2, [fn |-> "rows.add", data |-> updates.create])
       ELSE d2

NotifyAlwaysDraw(d, doDraw, updates, json) ==
    LET d0 == Call(d, [fn |-> "draw"])
    IN IF doDraw
       THEN LET d1 == Call(d0, [fn |-> "event", name |-> "onUpdate", updates |-> updates,
                                json |-> json])
            IN IF d.callbacks.onUpdate # JsUndefined
               THEN Call(d1, [fn |-> "callback", name |-> "onUpdate", updates |-> updates,
                              json |-> json])
               ELSE d1
       ELSE LET d1 == Call(d0, [fn |-> "event", name |-> "noUpdate", json |-> json])
            IN IF d.callbacks.noUpdate # JsUndefined
               THEN Call(d1, [fn |-> "callback", name |-> "noUpdate", json |-> json])
               ELSE d1

\* Lines 781-799: draw and onUpdate, or noUpdate; the callback of the
\* settings is called when there is one.
Notify(d, doDraw, updates, json) ==
    IF doDraw
    THEN LET d1 == Call(Call(d, [fn |-> "draw"]),
                        [fn |-> "event", name |-> "onUpdate", updates |-> updates,
                         json |-> json])
         IN IF d.callbacks.onUpdate # JsUndefined
            THEN Call(d1, [fn |-> "callback", name |-> "onUpdate", updates |-> updates,
                           json |-> json])
            ELSE d1
    ELSE LET d1 == Call(d, [fn |-> "event", name |-> "noUpdate", json |-> json])
         IN IF d.callbacks.noUpdate # JsUndefined
            THEN Call(d1, [fn |-> "callback", name |-> "noUpdate", json |-> json])
            ELSE d1

_processNewJson(d, json) ==
    IF d.previousJson = JsUndefined
    THEN [d EXCEPT !.previousJson = json]
    ELSE IF Len(json.data) = 0
         \* json[ dataSrc ][0] is undefined: TypeError
         THEN [d EXCEPT !.threw = TRUE]
         ELSE IF Get(json.data[1], rowId) = JsUndefined
              THEN IF JSONstringifyArray(d.previousJson.data) # JSONstringifyArray(json.data)
                   THEN Notify(Call(Call(d, [fn |-> "clear"]),
                                    [fn |-> "rows.add", data |-> json.data]),
                               TRUE, JsUndefined, json)
                   ELSE Notify(d, FALSE, JsUndefined, json)
              ELSE LET r == Reconcile(rowId, d.previousJson.data, json.data)
                   IN IF r.threw
                      THEN [d EXCEPT !.threw = TRUE]
                      ELSE IF r.value # JsNull
                           THEN Notify([ApplyUpdates(d, r.value) EXCEPT !.updates = r.value],
                                       TRUE, r.value, json)
                           ELSE Notify([d EXCEPT !.updates = JsNull], FALSE, JsNull, json)

(***************************************************************************)
(* The table behind _api, as the calls of _processNewJson change it: the   *)
(* data objects of its rows, in order.  The id of a row is the value of    *)
(* its rowId property, and the selector '#' + id selects the rows of that  *)
(* id; a row without the property has no id.                               *)
(***************************************************************************)
Selects(selector, row) ==
    HasOwn(row, rowId) /\ "#" \o String(Get(row, rowId)) = selector

\* _api.row( selector ).data( data ): the first row selected gets the data.
RowData(table, selector, data) ==
    LET sel == {i \in DOMAIN table : Selects(selector, table[i])}
    IN [i \in DOMAIN table |->
           IF i \in sel /\ (\A j \in sel : i <= j) THEN data ELSE table[i]]

\* _api.rows( selectors ).remove(): every row selected by one of them goes.
RowsRemove(table, selectors) ==
    SelectSeq(table, LAMBDA row : \A j \in DOMAIN selectors : ~ Selects(selectors[j], row))

\* _api.rows.add( data ) and _api.clear().
RowsAdd(table, data) == table \o data
Clear(table) == << >>

\* The table after the calls of _processNewJson from the i-th on.
RECURSIVE ApiCalls(_, _, _)
ApiCalls(table, calls, i) ==
    IF i > Len(calls) THEN table
    ELSE LET call == calls[i]
             t == CASE call.fn = "row.data" -> RowData(table, call.selector, call.data)
                    [] call.fn = "rows.remove" -> RowsRemove(table, call.selector)
                    [] call.fn = "rows.add" -> RowsAdd(table, call.data)
                    [] call.fn = "clear" -> Clear(table)
                    [] OTHER -> table
         IN ApiCalls(t, calls, i + 1)

\* The textStatus values of jqXHR.always().
Statuses ==
    {"success", "notmodified", "nocontent", "error", "timeout", "abort", "parsererror"}

\* The statuses jQuery resolves the request with (the others reject it).
SuccessStatuses == {"success", "notmodified", "nocontent"}

\* The statuses the transport itself completes a request with ("abort" comes
\* from jqXHR.abort()).
TransportStatuses == {"success", "error", "timeout"}

\* jqXHR.readyState once the request is over: 4 when the server answered
\* (status > 0), 0 when it did not (abort, timeout, network error).
FinalReadyStates(status) ==
    CASE status \in {"abort", "timeout"} -> {XHR_STATE_NOT_INIT}
      [] status = "error" -> {XHR_STATE_NOT_INIT, XHR_STATE_COMPLETE}
      [] OTHER -> {XHR_STATE_COMPLETE}

(***************************************************************************)
(* The init options.                                                       *)
(***************************************************************************)
_defaults ==
    [interval |-> JsNumber(4000),
     abortOn |-> JsArray({"error", "timeout", "parsererror"})]

\* dtSettings.oInit.liveAjax: true, or an object of settings (an interval
\* below the floor without abortOn; the documented example's abortOn with
\* an interval above the floor).  The intervals above the floor are all
\* 4000, the default, which keeps the delays of a behaviour to two values.
LiveAjaxOptions ==
    {JsTrue,
     JsObject([interval |-> JsNumber(1000), abortOn |-> JsUndefined]),
     JsObject([interval |-> JsNumber(4000),
               abortOn |-> JsArray({"error", "timeout", "parsererror", "abort"})])}

\* The arguments of liveAjax.setInterval() and liveAjax.reload().
SetIntervalArgs == {JsNull, JsNumber(0), JsNumber(1000), JsNumber(4000)}
ForceArgs == {JsUndefined, JsTrue}
CallbackArgs ==
    {[done |-> JsUndefined, fail |-> JsUndefined, always |-> JsUndefined],
     [done |-> JsFunction("done"), fail |-> JsFunction("fail"),
      always |-> JsFunction("always")]}

VARIABLES
    oInit,          \* dtSettings.oInit.liveAjax
    jqXHR,          \* dtSettings.jqXHR: the request object, or NoXhr
    readyState,     \* readyState of each live request object
    xhrCallbacks,   \* what initReload attached to each request in flight
    outstanding,    \* the requests the transport has not completed
    paused,         \* dtSettings.liveAjax.paused
    interval,       \* dtSettings.liveAjax.interval
    initInterval,   \* dtSettings.liveAjax.initInterval
    abortOn,        \* dtSettings.liveAjax.abortOn
    updateLoop,     \* dtSettings.liveAjax.updateLoop: handle of the last timer
    timers,         \* the pending timers of the page: handle -> delay
    lastResult,     \* dtSettings.liveAjax.lastResult
    destroyBound,   \* _destroyCallback is attached to destroy.dt
    last,           \* history: the handler that ran last and what it did
    stoppedByStatus,\* history: a fetch ended with an abortOn status, no (re)start since
    clearedSince,   \* history: clearTimeout() was called, no (re)start since
    oInitAjax,      \* dtSettings.oInit.ajax
    session,        \* what init.dt has done: nothing yet, returned, thrown, created
    otherTable,     \* a second table of the page with its own session, or undefined
    previous,       \* reconciler: the collection of the snapshot
    current,        \* reconciler: the collection of the response
    changes,        \* reconciler: what Reconcile returned or threw, or Pending
    previousJson,   \* dtSettings.liveAjax.previousJson
    callbacks,      \* dtSettings.liveAjax.callbacks
    processed       \* history: the last response and what _processNewJson did

vars ==
    <<oInit, jqXHR, readyState, xhrCallbacks, outstanding, paused, interval, initInterval, abortOn,
      updateLoop, timers, lastResult, destroyBound, last,
      stoppedByStatus, clearedSince, oInitAjax, session, otherTable,
      previous, current, changes,
      previousJson, callbacks, processed>>

\* The variables of the polling session and those of the reconciler.
pollingVars ==
    <<oInit, jqXHR, readyState, xhrCallbacks, outstanding, paused, interval,
      initInterval, abortOn, updateLoop, timers, lastResult, destroyBound, last,
      stoppedByStatus, clearedSince, oInitAjax, session, otherTable>>
reconcilerVars == <<previous, current, changes>>
responseVars == <<previousJson, callbacks, processed>>

\* No response has been processed.
Idle == [idle |-> TRUE]

\* The reconciler has not been called on previous and current.
Pending == [pending |-> TRUE]

(***************************************************************************)
(* The state a handler works on.  The fields after destroyBound are what   *)
(* the handler did, collected for the history variables.                   *)
(***************************************************************************)
Cur ==
    [jqXHR |-> jqXHR, readyState |-> readyState, xhrCallbacks |-> xhrCallbacks,
     outstanding |-> outstanding,
     paused |-> paused, interval |-> interval, initInterval |-> initInterval,
     abortOn |-> abortOn, updateLoop |-> updateLoop, timers |-> timers,
     lastResult |-> lastResult, destroyBound |-> destroyBound,
     issued |-> FALSE, armed |-> FALSE, threw |-> FALSE, skip |-> "none",
     completed |-> "none", initCalled |-> FALSE, cleared |-> FALSE,
     invoked |-> << >>, withCallbacks |-> FALSE, applied |-> FALSE]

FreeTimers(s) == (1..MaxTimers) \ DOMAIN s.timers
FreeXhrs(s) == (1..MaxOutstanding) \ s.outstanding

Min(S) == CHOOSE x \in S : \A y \in S : x <= y

\* Drop the entries of f outside D.
Restrict(f, D) == [x \in (DOMAIN f) \cap D |-> f[x]]

\* $.inArray( x, arr ) !== -1
inArray(x, arr) == x \in arr.elems

(***************************************************************************)
(* Private functions of the plugin.                                        *)
(***************************************************************************)
_isXhrClearBroken(s) == TRUE

_isXhrClearCompleteOnly(s) ==
    \/ s.jqXHR = NoXhr
    \/ s.readyState[s.jqXHR] = XHR_STATE_COMPLETE

_isXhrClear(s) ==
    \/ s.jqXHR = NoXhr
    \/ s.readyState[s.jqXHR] \in {XHR_STATE_COMPLETE, XHR_STATE_NOT_INIT}

\* setTimeout( fn, delay ): a new pending timer; its handle is returned into
\* liveAjax.updateLoop.
setTimeout(s, delay) ==
    LET t == Min(FreeTimers(s))
    IN [s EXCEPT !.timers = [x \in (DOMAIN s.timers) \cup {t} |->
                                IF x = t THEN delay ELSE s.timers[x]],
                 !.updateLoop = t,
                 !.armed = TRUE]

\* clearTimeout( handle ): a handle that is not pending is ignored.
clearTimeout(s, handle) ==
    [s EXCEPT !.timers = Restrict(s.timers, (DOMAIN s.timers) \ {handle})]

\* The functions the callbacks initReload attached to a request call when
\* the request is over: .done or .fail, then .always (lines 846-857).
XhrCallbacks(cb, status) ==
    LET call(f) == IF typeof(f) = "function" THEN <<f.name>> ELSE << >>
    IN (IF status \in SuccessStatuses
        THEN call(cb.doneCallback)
        ELSE call(cb.failCallback)) \o call(cb.alwaysCallback)

\* The request r is over with textStatus: jQuery sets readyState and runs the
\* done/fail/always callbacks _fnBuildAjax attached.  threw: the success
\* callback (_processNewJson) raised, so the callbacks after it did not run.
Complete(s, r, status, rs, threw) ==
    LET live == (s.outstanding \ {r}) \cup {s.jqXHR}
        cb == s.xhrCallbacks[r]
    IN [s EXCEPT !.outstanding = s.outstanding \ {r},
                 !.readyState = Restrict([s.readyState EXCEPT ![r] = rs], live),
                 !.xhrCallbacks = Restrict(s.xhrCallbacks, s.outstanding \ {r}),
                 !.lastResult = IF threw THEN s.lastResult ELSE status,
                 !.completed = IF threw THEN s.completed ELSE status,
                 !.threw = s.threw \/ threw,
                 !.invoked = IF threw THEN s.invoked
                             ELSE s.invoked \o XhrCallbacks(cb, status),
                 !.withCallbacks = typeof(cb.doneCallback) = "function"
                                   \/ typeof(cb.failCallback) = "function"
                                   \/ typeof(cb.alwaysCallback) = "function"]

\* _fnBuildAjax: dtSettings.jqXHR = $.ajax( ... ), a new request in flight.
_fnBuildAjax(s) ==
    LET r == Min(FreeXhrs(s))
        live == s.outstanding \cup {r}
    IN [s EXCEPT !.jqXHR = r,
                 !.outstanding = s.outstanding \cup {r},
                 !.readyState = [x \in live |->
                                    IF x = r THEN XHR_STATE_SETUP ELSE s.readyState[x]],
                 !.issued = TRUE]

\* _abortXhr: jqXHR.abort() ends an outstanding request at once with the
\* status "abort"; on a finished request it does nothing; with no request
\* object the TypeError is caught (latestError, which nothing reads, is not
\* part of the model).
_abortXhr(s) ==
    IF s.jqXHR = NoXhr
    THEN s
    ELSE IF s.jqXHR \in s.outstanding
         THEN Complete(s, s.jqXHR, "abort", XHR_STATE_NOT_INIT, FALSE)
         ELSE s

_clearTimeout(s) == [clearTimeout(s, s.updateLoop) EXCEPT !.cleared = TRUE]

_destroyCallbackOfAnyTable(s, id, ctxId) ==
    LET s1 == _abortXhr(s)
    IN [clearTimeout(s1, s1.updateLoop) EXCEPT !.destroyBound = FALSE]

\* _destroyCallback( e, ctx ) of the table with the id attribute id, on the
\* destroy.dt of the table with the id attribute ctxId.
_destroyCallback(s, id, ctxId) ==
    IF id = ctxId
    THEN LET s1 == _abortXhr(s)
         IN [clearTimeout(s1, s1.updateLoop) EXCEPT !.destroyBound = FALSE]
    ELSE s

_setPauseStatusInverted(s, status) == [s EXCEPT !.paused = ~ status]

\* _setPauseStatus( dtSettings, status )
_setPauseStatus(s, status) == [s EXCEPT !.paused = status]

\* The next iteration armed after a success only.
pollingFnAfterSuccess(s) ==
    IF s.lastResult = "success"
    THEN setTimeout(s, s.interval)
    ELSE s

\* The polling function _doTimeout hands to initReload: arm the next timer
\* unless the last result is an abortOn status.
pollingFn(s) ==
    IF ~ inArray(s.lastResult, s.abortOn)
    THEN setTimeout(s, s.interval)
    ELSE s

\* _doTimeout: dtSettings.liveAjax.updateLoop = setTimeout( ..., interval )
_doTimeout(s) == setTimeout(s, s.interval)

_initUpdatesUnguarded(s) == _doTimeout([s EXCEPT !.initCalled = TRUE])

_initUpdates(s) ==
    IF ~ _isXhrClear(s)
    THEN [s EXCEPT !.initCalled = TRUE]
    ELSE _doTimeout([s EXCEPT !.initCalled = TRUE])

\* _getOpt( item, isType ); isType "" when the argument is left out.
_getOpt(_options, item, isType) ==
    LET defaultVal == IF item \in DOMAIN _defaults THEN _defaults[item] ELSE JsNull
    IN IF /\ isPlainObject(_options)
          /\ _options.props[item] # JsUndefined
          /\ (isType = "" \/ typeof(_options.props[item]) = isType)
       THEN _options.props[item]
       ELSE defaultVal

ClampUnclamped(n) == n

\* _minInterval > n ? _minInterval : n
Clamp(n) == IF _minInterval > n THEN _minInterval ELSE n


\* int || dtSettings.liveAjax.initInterval: null and 0 are falsy.
OrInitInterval(int, s) ==
    IF typeof(int) = "number" /\ int.num # 0 THEN int.num ELSE s.initInterval

\* The body of liveAjax.setInterval( int, immediate ).
liveAjax_setInterval(s, int, immediate) ==
    LET newInt == OrInitInterval(int, s)
        s1 == IF immediate = JsTrue
              THEN _initUpdates(_clearTimeout(_abortXhr(s)))
              ELSE s
    IN [s1 EXCEPT !.interval = Clamp(newInt)]

\* A handler the page has bound to xhrSkipped.liveAjax, which calls one
\* method of the API on the table: clearTimeout(), pause() or
\* setInterval( 1000 ); "none" when no handler is bound.
Handlers == {"clearTimeout", "pause", "setInterval"}
UserHandler(s, handler) ==
    CASE handler = "clearTimeout" -> _clearTimeout(s)
      [] handler = "pause" -> _setPauseStatus(s, TRUE)
      [] handler = "setInterval" -> liveAjax_setInterval(s, JsNumber(1000), JsUndefined)
      [] OTHER -> s

\* dtSettings.liveAjax.initReload, handler bound to xhrSkipped.liveAjax:
\* _fnCallbackFire runs the handlers of the event before it returns.
initReloadOn(s, pollingArg, overridePause, doneCallback, failCallback, alwaysCallback, handler) ==
    IF _isXhrClear(s) /\ (s.paused = FALSE \/ overridePause = JsTrue)
    THEN LET s0 == _fnBuildAjax(s)
             s1 == [s0 EXCEPT !.xhrCallbacks =
                        [x \in s0.outstanding |->
                            IF x = s0.jqXHR
                            THEN [doneCallback |-> doneCallback,
                                  failCallback |-> failCallback,
                                  alwaysCallback |-> alwaysCallback]
                            ELSE s.xhrCallbacks[x]]]
         IN IF typeof(pollingArg) = "function" THEN pollingFn(s1) ELSE s1
    ELSE IF s.jqXHR = NoXhr
         \* dtSettings.jqXHR.readyState of undefined: TypeError
         THEN [s EXCEPT !.threw = TRUE]
         ELSE LET s1 == UserHandler([s EXCEPT !.skip =
                                        IF s.readyState[s.jqXHR] < XHR_STATE_COMPLETE
                                        THEN "processing" ELSE "paused"],
                                    handler)
              IN IF typeof(alwaysCallback) = "function"
                 \* data_jqXHR is not defined: ReferenceError
                 THEN [s1 EXCEPT !.threw = TRUE]
                 ELSE IF typeof(pollingArg) = "function" THEN pollingFn(s1) ELSE s1

\* dtSettings.liveAjax.initReload, no handler bound to its events.
initReload(s, pollingArg, overridePause, doneCallback, failCallback, alwaysCallback) ==
    initReloadOn(s, pollingArg, overridePause, doneCallback, failCallback, alwaysCallback,
                 "none")

(***************************************************************************)
(* Plugin initialization on init.dt (lines 686-901).  DataTables fires     *)
(* init.dt from the success callback of the request that loaded the table, *)
(* so dtSettings.jqXHR holds that request, complete (readyState 4).        *)
(***************************************************************************)
InitSession(o, x) ==
    _initUpdates(
        [jqXHR |-> x,
         readyState |-> [r \in {x} \ {NoXhr} |-> XHR_STATE_COMPLETE],
         outstanding |-> {},
         paused |-> FALSE,
         interval |-> Clamp(parseInt(_getOpt(o, "interval", ""))),
         initInterval |-> Clamp(parseInt(_getOpt(o, "interval", ""))),
         abortOn |-> _getOpt(o, "abortOn", "array"),
         updateLoop |-> NoTimer,
         timers |-> << >>,
         lastResult |-> "undefined",
         destroyBound |-> TRUE,
         xhrCallbacks |-> << >>,
         issued |-> FALSE, armed |-> FALSE, threw |-> FALSE, skip |-> "none",
         completed |-> "none", initCalled |-> FALSE, cleared |-> FALSE,
         invoked |-> << >>, withCallbacks |-> FALSE, applied |-> FALSE])

\* What the history keeps of a handler: its name and arguments, what held
\* when it started and what it did.
History(op, arg, flag, s) ==
    [op |-> op, arg |-> arg, flag |-> flag,
     issued |-> s.issued, armed |-> s.armed, threw |-> s.threw, skip |-> s.skip,
     preTimer |-> flag = JsTrue /\ updateLoop \in DOMAIN timers,
     invoked |-> s.invoked, withCallbacks |-> s.withCallbacks,
     applied |-> s.applied,
     fromStopped |-> /\ op = "initiate"
                     /\ stoppedByStatus /\ ~ clearedSince
                     /\ timers = << >> /\ outstanding = {}]

CommitTable(op, arg, flag, handled) ==
    \E s \in {handled} :
        /\ jqXHR' = s.jqXHR
        /\ readyState' = s.readyState
        /\ xhrCallbacks' = s.xhrCallbacks
        /\ outstanding' = s.outstanding
        /\ paused' = s.paused
        /\ interval' = s.interval
        /\ initInterval' = s.initInterval
        /\ abortOn' = s.abortOn
        /\ updateLoop' = s.updateLoop
        /\ timers' = s.timers
        /\ lastResult' = s.lastResult
        /\ destroyBound' = s.destroyBound
        /\ oInit' = oInit
        /\ last' = History(op, arg, flag, s)
        /\ stoppedByStatus' =
              IF s.initCalled THEN FALSE
              ELSE IF s.completed # "none" /\ inArray(s.completed, s.abortOn) THEN TRUE
              ELSE stoppedByStatus
        /\ clearedSince' =
              IF s.initCalled THEN FALSE
              ELSE IF s.cleared THEN TRUE
              ELSE clearedSince
        /\ oInitAjax' = oInitAjax
        /\ UNCHANGED <<reconcilerVars, responseVars>>

\* A handler of the session of this table that reaches no other table.
Commit(op, arg, flag, s) ==
    /\ CommitTable(op, arg, flag, s)
    /\ session' = session
    /\ otherTable' = otherTable

InitTable(o, x) ==
        LET s == InitSession(o, x)
        IN /\ oInit = o
           /\ jqXHR = s.jqXHR
           /\ readyState = s.readyState
           /\ xhrCallbacks = s.xhrCallbacks
           /\ outstanding = s.outstanding
           /\ paused = s.paused
           /\ interval = s.interval
           /\ initInterval = s.initInterval
           /\ abortOn = s.abortOn
           /\ updateLoop = s.updateLoop
           /\ timers = s.timers
           /\ lastResult = s.lastResult
           /\ destroyBound = s.destroyBound
           /\ last = [op |-> "init", arg |-> JsUndefined, flag |-> JsUndefined,
                      issued |-> FALSE, armed |-> TRUE, threw |-> FALSE,
                      skip |-> "none", preTimer |-> FALSE,
                      invoked |-> << >>, withCallbacks |-> FALSE,
                      applied |-> FALSE, fromStopped |-> FALSE]
           /\ stoppedByStatus = FALSE
           /\ clearedSince = FALSE
           /\ oInitAjax = JsString("data.json")
           /\ session = "created"

\* The table is the only one of the page.
InitPolling(o, x) ==
    /\ InitTable(o, x)
    /\ otherTable = JsUndefined

\* No collection is handed to the reconciler.
InitReconcilerIdle ==
    /\ previous = << >>
    /\ current = << >>
    /\ changes = Pending

\* No response reaches _processNewJson.
InitResponseIdle ==
    /\ previousJson = Response(<< >>)
    /\ callbacks = [onUpdate |-> JsUndefined, noUpdate |-> JsUndefined]
    /\ processed = Idle

\* The polling session of a table after init.dt.
Init ==
    /\ \E o \in LiveAjaxOptions, x \in {1} : InitPolling(o, x)
    /\ InitReconcilerIdle
    /\ InitResponseIdle

(***************************************************************************)
(* The handlers.                                                           *)
(***************************************************************************)

\* The timer t fires: the setTimeout callback of _doTimeout (lines 602-613).
Tick(t) ==
    /\ t \in DOMAIN timers
    /\ Cardinality(outstanding) < MaxOutstanding
    /\ Commit("tick", JsUndefined, JsUndefined,
              initReload(clearTimeout(Cur, t), JsFunction("pollingFn"),
                         JsUndefined, JsUndefined, JsUndefined, JsUndefined))

\* The transport completes the request r.  On success _processNewJson is
\* handed the response (line 488): it raises (threw), or it changes the
\* table and draws (applied), or it finds nothing to change.
XhrDone(r, status, rs, threw, applied) ==
    /\ r \in outstanding
    /\ rs \in FinalReadyStates(status)
    /\ threw => status = "success"
    /\ applied => status = "success" /\ ~ threw
    /\ Commit("xhr", JsUndefined, JsUndefined,
              [Complete(Cur, r, status, rs, threw) EXCEPT !.applied = applied])

\* liveAjax.initiate()
Initiate ==
    /\ destroyBound
    /\ FreeTimers(Cur) # {}
    /\ Commit("initiate", JsUndefined, JsUndefined, _initUpdates(Cur))

\* liveAjax.abortXhr()
AbortXhr ==
    /\ destroyBound
    /\ Commit("abortXhr", JsUndefined, JsUndefined, _abortXhr(Cur))

\* liveAjax.clearTimeout( abortXhr )
ClearTimeout(abortArg) ==
    /\ destroyBound
    /\ Commit("clearTimeout", JsUndefined, JsUndefined,
              _clearTimeout(IF abortArg = JsTrue THEN _abortXhr(Cur) ELSE Cur))

\* liveAjax.pause()
Pause ==
    /\ destroyBound
    /\ Commit("pause", JsUndefined, JsUndefined, _setPauseStatus(Cur, TRUE))

\* liveAjax.resume()
Resume ==
    /\ destroyBound
    /\ Commit("resume", JsUndefined, JsUndefined, _setPauseStatus(Cur, FALSE))

\* liveAjax.togglePause()
TogglePause ==
    /\ destroyBound
    /\ Commit("togglePause", JsUndefined, JsUndefined, _setPauseStatus(Cur, ~ paused))

\* liveAjax.isPaused()
isPaused == paused

\* liveAjax.xhrStatus(): dtSettings.jqXHR.readyState, or undefined when there
\* is no request object.
xhrStatus ==
    IF jqXHR = NoXhr THEN JsUndefined ELSE JsNumber(readyState[jqXHR])

\* liveAjax.reload( overridePause, doneCallback, failCallback, alwaysCallback ):
\* the four arguments are handed to initReload as its first four parameters.
Reload(overridePause, cb) ==
    /\ destroyBound
    /\ Cardinality(outstanding) < MaxOutstanding
    /\ Commit("reload", overridePause, JsUndefined,
              initReload(Cur, overridePause, cb.done, cb.fail, cb.always, JsUndefined))

\* liveAjax.setInterval( int, immediate )
SetInterval(int, immediate) ==
    /\ destroyBound
    /\ immediate = JsTrue => FreeTimers(_clearTimeout(Cur)) # {}
    /\ Commit("setInterval", int, immediate, liveAjax_setInterval(Cur, int, immediate))

\* The id attribute of the table node.
tableId == "tableA"

\* destroy.dt of this table: the event is triggered on the table node and
\* bubbles, so it runs the _destroyCallback of this table and that of the
\* other table when its node contains this one.
Destroy ==
    /\ destroyBound
    /\ CommitTable("destroy", JsUndefined, JsUndefined,
                   _destroyCallback(Cur, tableId, tableId))
    /\ session' = session
    /\ otherTable' =
          IF otherTable # JsUndefined /\ otherTable.ancestor
          THEN [otherTable EXCEPT
                   !.liveAjax = _destroyCallback(@, otherTable.id, tableId)]
          ELSE otherTable

Next ==
    \/ \E t \in 1..MaxTimers : Tick(t)
    \/ \E r \in 1..MaxOutstanding, status \in TransportStatuses,
          rs \in {XHR_STATE_NOT_INIT, XHR_STATE_COMPLETE}, threw \in BOOLEAN,
          applied \in BOOLEAN :
          XhrDone(r, status, rs, threw, applied)
    \/ Initiate
    \/ AbortXhr
    \/ \E a \in {JsUndefined, JsTrue} : ClearTimeout(a)
    \/ Pause
    \/ Resume
    \/ TogglePause
    \/ \E f \in ForceArgs, cb \in CallbackArgs : Reload(f, cb)
    \/ \E i \in SetIntervalArgs, im \in {JsUndefined, JsTrue} : SetInterval(i, im)
    \/ Destroy

Spec == Init /\ [][Next]_vars

TypeOK ==
    /\ jqXHR \in 0..MaxOutstanding
    /\ outstanding \subseteq 1..MaxOutstanding
    /\ DOMAIN timers \subseteq 1..MaxTimers
    /\ paused \in BOOLEAN
    /\ lastResult \in Statuses \cup {"undefined"}


(***************************************************************************)
(* The reconciler on its own: _fnKeyStructData and _fnGetChanges applied   *)
(* to every pair of collections, as _processNewJson applies them to the    *)
(* snapshot and the response (lines 742-745), the polling session at rest. *)
(***************************************************************************)
InitReconciler ==
    /\ InitPolling(JsTrue, 1)
    /\ previous \in Collections
    /\ current \in Collections
    /\ changes = Pending
    /\ InitResponseIdle

\* _fnGetChanges( _fnKeyStructData( rowId, previous ), _fnKeyStructData( rowId, current ) )
GetChanges ==
    /\ changes = Pending
    /\ changes' = Reconcile(rowId, previous, current)
    /\ UNCHANGED <<previous, current, pollingVars, responseVars>>

\* The response becomes the snapshot (line 552) and the same response
\* arrives again.
SameResponseAgain ==
    /\ changes # Pending
    /\ previous' = current
    /\ current' = current
    /\ changes' = Pending
    /\ UNCHANGED <<pollingVars, responseVars>>

NextReconciler == GetChanges \/ SameResponseAgain

SpecReconciler == InitReconciler /\ [][NextReconciler]_vars

(***************************************************************************)
(* The responses of successful fetches, one after the other, the polling   *)
(* session at rest.  previousJson starts as dtSettings.json, the response  *)
(* the table was loaded from; onUpdate and noUpdate are both configured as *)
(* functions, or neither is.                                               *)
(***************************************************************************)
CallbackOptions ==
    {[onUpdate |-> JsUndefined, noUpdate |-> JsUndefined],
     [onUpdate |-> JsFunction("onUpdate"), noUpdate |-> JsFunction("noUpdate")]}

InitResponses ==
    /\ InitPolling(JsTrue, 1)
    /\ InitReconcilerIdle
    /\ previousJson \in Responses
    /\ callbacks \in CallbackOptions
    /\ processed = Idle

\* A fetch succeeds with json: baseAjax.success hands it to _processNewJson
\* (line 488); the .done of _fnBuildAjax, which runs unless that raised,
\* makes it the snapshot (line 552).
Success(json) ==
    \E d \in {_processNewJson([previousJson |-> previousJson, callbacks |-> callbacks,
                                calls |-> << >>, updates |-> JsUndefined, threw |-> FALSE],
                               json)} :
       /\ previousJson' = IF d.threw THEN previousJson ELSE json
       /\ callbacks' = callbacks
       /\ processed' = [json |-> json, previousJson |-> previousJson,
                        calls |-> d.calls, updates |-> d.updates, threw |-> d.threw]
       /\ UNCHANGED <<pollingVars, reconcilerVars>>

NextResponses == \E json \in Responses : Success(json)

SpecResponses == InitResponses /\ [][NextResponses]_vars

(***************************************************************************)
(* One response against one snapshot, the polling session at rest: rows of *)
(* three identifiers, so that one response can update a row, remove a      *)
(* second and add a third, and two rows without the identifier.            *)
(***************************************************************************)
TableRows ==
    ResponseRows \cup {Row(JsNumber(3), "x"), <<Prop("v", JsString("y"))>>}
TableResponses == {Response(data) : data \in UNION {[1..n -> TableRows] : n \in 0..MaxRows}}

InitChangeSets ==
    /\ InitPolling(JsTrue, 1)
    /\ InitReconcilerIdle
    /\ previousJson \in TableResponses
    /\ callbacks \in CallbackOptions
    /\ processed = Idle

\* The first fetch of the session succeeds with json.
FirstSuccess(json) ==
    /\ processed = Idle
    /\ Success(json)

NextChangeSets == \E json \in TableResponses : FirstSuccess(json)

SpecChangeSets == InitChangeSets /\ [][NextChangeSets]_vars

(***************************************************************************)
(* A page with two tables, each with its own dtSettings and so its own     *)
(* session.  The handlers are those of this table; the other table is at   *)
(* rest, paused after its first tick: a timer pending, a fetch             *)
(* outstanding.  Its node contains the node of this table (a table in a    *)
(* child row) or not.  DataTables gives a table node without an id         *)
(* attribute one of its own, so the two ids differ.                        *)
(***************************************************************************)
OtherSession ==
    LET s == InitSession(JsTrue, 1)
    IN _setPauseStatus(initReload(clearTimeout(s, s.updateLoop), JsFunction("pollingFn"),
                                  JsUndefined, JsUndefined, JsUndefined, JsUndefined),
                       TRUE)

OtherTables ==
    {[id |-> "tableB", ancestor |-> a, liveAjax |-> OtherSession,
      previousJson |-> Response(<<Row(JsNumber(1), "x")>>)] : a \in BOOLEAN}

InitTables ==
    /\ InitTable(JsTrue, 1)
    /\ otherTable \in OtherTables
    /\ InitReconcilerIdle
    /\ InitResponseIdle

SpecTables == InitTables /\ [][Next]_vars

(***************************************************************************)
(* A table from before its init.dt: the liveAjax option is anything, the   *)
(* ajax option is set or not.  dtSettings.liveAjax does not exist until    *)
(* the handler creates it, so its fields are undefined; dtSettings.jqXHR   *)
(* is the request that loaded the table, if one did.                       *)
(***************************************************************************)
InitOptions ==
    {JsUndefined, JsFalse, JsString("true"), JsTrue,
     JsObject([interval |-> JsNumber(1000), abortOn |-> JsUndefined])}
AjaxOptions == {JsUndefined, JsString("data.json")}

\* Nothing done by a handler.
NoActs ==
    [issued |-> FALSE, armed |-> FALSE, threw |-> FALSE, skip |-> "none",
     invoked |-> << >>, withCallbacks |-> FALSE, applied |-> FALSE]

InitPage ==
    /\ oInit \in InitOptions
    /\ oInitAjax \in AjaxOptions
    /\ jqXHR = IF oInitAjax = JsUndefined THEN NoXhr ELSE 1
    /\ readyState = [r \in {jqXHR} \ {NoXhr} |-> XHR_STATE_COMPLETE]
    /\ xhrCallbacks = << >>
    /\ outstanding = {}
    /\ paused = JsUndefined
    /\ interval = JsUndefined
    /\ initInterval = JsUndefined
    /\ abortOn = JsUndefined
    /\ updateLoop = JsUndefined
    /\ lastResult = JsUndefined
    /\ timers = << >>
    /\ destroyBound = FALSE
    /\ last = History("page", JsUndefined, JsUndefined, NoActs)
    /\ stoppedByStatus = FALSE
    /\ clearedSince = FALSE
    /\ session = "page"
    /\ otherTable = JsUndefined
    /\ InitReconcilerIdle
    /\ InitResponseIdle

init_dtUnchecked(_options, ajax) == "created"

\* The tests at the head of the init.dt handler (lines 693-699): what the
\* handler goes on to do.
init_dt(_options, ajax) ==
    IF _options # JsTrue /\ ~ isPlainObject(_options)
    THEN "returned"
    ELSE IF ajax = JsUndefined
         THEN "threw"
         ELSE "created"

\* init.dt of the table.
InitDt ==
    /\ session = "page"
    /\ session' = init_dt(oInit, oInitAjax)
    /\ otherTable' = otherTable
    /\ IF session' = "created"
       THEN CommitTable("init", JsUndefined, JsUndefined, InitSession(oInit, jqXHR))
       ELSE /\ last' = History("init", JsUndefined, JsUndefined,
                               [NoActs EXCEPT !.threw = (session' = "threw")])
            /\ UNCHANGED <<oInit, jqXHR, readyState, xhrCallbacks, outstanding, paused,
                           interval, initInterval, abortOn, updateLoop, timers,
                           lastResult, destroyBound, stoppedByStatus, clearedSince,
                           oInitAjax, reconcilerVars, responseVars>>

\* The methods of the API, which are registered for every table.
ApiMethods ==
    {"initiate", "abortXhr", "clearTimeout", "pause", "resume", "togglePause",
     "reload", "setInterval"}

\* A method of the API called on a table init.dt gave no session: every
\* method but abortXhr() reads or writes a property of dtSettings.liveAjax,
\* which is undefined, before it does anything else (a TypeError);
\* abortXhr() catches what jqXHR.abort() raises.
ApiWithoutSession(method) ==
    /\ session \in {"returned", "threw"}
    /\ last' = History(method, JsUndefined, JsUndefined,
                       [NoActs EXCEPT !.threw = (method # "abortXhr")])
    /\ UNCHANGED <<oInit, jqXHR, readyState, xhrCallbacks, outstanding, paused,
                   interval, initInterval, abortOn, updateLoop, timers,
                   lastResult, destroyBound, stoppedByStatus, clearedSince,
                   oInitAjax, session, otherTable, reconcilerVars, responseVars>>

NextInit ==
    \/ InitDt
    \/ \E method \in ApiMethods : ApiWithoutSession(method)
    \/ \E t \in 1..MaxTimers : Tick(t)
    \/ \E r \in 1..MaxOutstanding, status \in TransportStatuses,
          rs \in {XHR_STATE_NOT_INIT, XHR_STATE_COMPLETE}, threw \in BOOLEAN,
          applied \in BOOLEAN :
          XhrDone(r, status, rs, threw, applied)
    \/ Initiate
    \/ \E a \in {JsUndefined, JsTrue} : ClearTimeout(a)

SpecInit == InitPage /\ [][NextInit]_vars

(***************************************************************************)
(* The ticks of a page that binds a handler to xhrSkipped.liveAjax: the    *)
(* handler runs inside the tick that is skipped, between the notification  *)
(* and the polling function.                                               *)
(***************************************************************************)
TickHandled(t, handler) ==
    /\ t \in DOMAIN timers
    /\ Cardinality(outstanding) < MaxOutstanding
    /\ Commit("tick", JsString(handler), JsUndefined,
              initReloadOn(clearTimeout(Cur, t), JsFunction("pollingFn"),
                           JsUndefined, JsUndefined, JsUndefined, JsUndefined, handler))

NextHandlers ==
    \/ \E t \in 1..MaxTimers, handler \in Handlers : TickHandled(t, handler)
    \/ \E r \in 1..MaxOutstanding, status \in TransportStatuses,
          rs \in {XHR_STATE_NOT_INIT, XHR_STATE_COMPLETE}, threw \in BOOLEAN,
          applied \in BOOLEAN :
          XhrDone(r, status, rs, threw, applied)
    \/ Pause
    \/ Resume

SpecHandlers == Init /\ [][NextHandlers]_vars

(***************************************************************************)
(* The polling loop left to run: the session without clearTimeout() and    *)
(* without teardown.  A pending timer fires in the end (setTimeout), and   *)
(* the transport completes every request in the end.                       *)
(***************************************************************************)
TimerFires == \E t \in 1..MaxTimers : Tick(t)

TransportCompletes ==
    \E r \in 1..MaxOutstanding, status \in TransportStatuses,
       rs \in {XHR_STATE_NOT_INIT, XHR_STATE_COMPLETE}, threw \in BOOLEAN,
       applied \in BOOLEAN :
       XhrDone(r, status, rs, threw, applied)

\* reload() is called without callbacks, setInterval() to reset the
\* interval at once.
NextLoop ==
    \/ TimerFires
    \/ TransportCompletes
    \/ Initiate
    \/ AbortXhr
    \/ Pause
    \/ Resume
    \/ \E f \in ForceArgs :
          Reload(f, [done |-> JsUndefined, fail |-> JsUndefined, always |-> JsUndefined])
    \/ SetInterval(JsNull, JsTrue)

SpecLoop ==
    /\ Init
    /\ [][NextLoop]_vars
    /\ WF_vars(TimerFires)
    /\ WF_vars(TransportCompletes)

(***************************************************************************)
(* The polling loop with nothing to start it again: the same, with no      *)
(* other calls than pause(), resume() and reload().                        *)
(***************************************************************************)
NextReloads ==
    \/ TimerFires
    \/ TransportCompletes
    \/ Pause
    \/ Resume
    \/ \E f \in ForceArgs :
          Reload(f, [done |-> JsUndefined, fail |-> JsUndefined, always |-> JsUndefined])

SpecReloads ==
    /\ Init
    /\ [][NextReloads]_vars
    /\ WF_vars(TimerFires)
    /\ WF_vars(TransportCompletes)

(***************************************************************************)
(* Claims.                                                                 *)
(***************************************************************************)

\* C1: in every reachable state at most one liveAjax fetch is outstanding,
\* and the outstanding one is the request dtSettings.jqXHR holds, still in
\* flight: a tick or a reload() that finds a fetch outstanding adds none.
C1_AtMostOneFetchOutstanding ==
    /\ Cardinality(outstanding) <= 1
    /\ outstanding # {} =>
          outstanding = {jqXHR} /\ readyState[jqXHR] = XHR_STATE_SETUP
    /\ last.skip = "processing" => ~ last.issued

\* A tick or a reload() arrived while a fetch was outstanding and was skipped.
C1_Witness ==
    /\ last.op \in {"tick", "reload"}
    /\ last.skip = "processing"
    /\ outstanding # {}

C3_ForcedReloadBypassesPause ==
    (last.op = "reload" /\ last.arg = JsTrue /\ paused /\ outstanding = {})
        => last.issued

\* C4: once a fetch has completed with a status of abortOn, and until
\* initiate() is called, the loop is stopped: no tick that fires after the
\* failure issues a fetch or arms a timer.
C4_AbortStatusStopsLoop ==
    stoppedByStatus => ~ (last.op = "tick" /\ (last.issued \/ last.armed))

\* C5: the session's abortOn is the array given as liveAjax.abortOn, and the
\* default only when the option is absent.
C5_AbortOnIsConfigured ==
    /\ (isPlainObject(oInit) /\ oInit.props.abortOn # JsUndefined)
          => abortOn = oInit.props.abortOn
    /\ ~ (isPlainObject(oInit) /\ oInit.props.abortOn # JsUndefined)
          => abortOn = _defaults.abortOn

\* C6: after clearTimeout(), and until initiate() or setInterval( .., true ),
\* no tick executes.
C6_NoTickAfterClearTimeout ==
    clearedSince => last.op # "tick"

\* C7: after destroy.dt of the table no fetch is outstanding, no timer is
\* pending, and neither a tick nor a response is processed.
C7_TeardownStopsEverything ==
    ~ destroyBound =>
        /\ outstanding = {}
        /\ timers = << >>
        /\ last.op = "destroy"

\* C8: a session never has more than one pending polling timer, and
\* initiate() arms none while one is pending or a fetch is outstanding.
C8_AtMostOnePollingTimer ==
    Cardinality(DOMAIN timers) <= 1

\* C9: the interval is never below the floor, and neither is the delay of
\* any timer.
C9_IntervalNeverBelowFloor ==
    /\ interval >= _minInterval
    /\ initInterval >= _minInterval
    /\ \A t \in DOMAIN timers : timers[t] >= _minInterval

\* setInterval() was given an interval below the floor by a session whose
\* initial interval is above it, and a timer has been armed since.
C9_Witness ==
    /\ last.op = "tick"
    /\ last.armed
    /\ interval = _minInterval
    /\ initInterval > _minInterval
    /\ timers[updateLoop] = _minInterval

\* C10: setInterval( v, true ) while a timer is pending arms a new timer
\* whose delay is the new interval.
C10_ImmediateIntervalArmsNewDelay ==
    (last.op = "setInterval" /\ last.flag = JsTrue /\ last.preTimer) =>
        /\ last.armed
        /\ updateLoop \in DOMAIN timers
        /\ timers[updateLoop] = interval

\* C11: setInterval( v ) without the immediate flag leaves the pending timers
\* and the timer handle as they were and sets the interval to max( 1500, v );
\* setInterval( null ) sets it to the interval of initialization.
C11_SetIntervalTakesEffectLater ==
    [][(last'.op = "setInterval" /\ last'.flag = JsUndefined) =>
          /\ timers' = timers
          /\ updateLoop' = updateLoop
          /\ interval' = IF last'.arg = JsNull
                         THEN initInterval
                         ELSE IF last'.arg.num > _minInterval
                              THEN last'.arg.num
                              ELSE _minInterval]_vars

\* C12: abortXhr() ends the outstanding fetch with the status "abort" and
\* leaves the pending timers alone; when "abort" is not in abortOn, a tick
\* that fires afterwards arms the next timer and, unless the session is
\* paused or another fetch is outstanding, issues a fetch.
C12_AbortXhrKeepsPolling ==
    /\ [][last'.op = "abortXhr" =>
             /\ timers' = timers
             /\ updateLoop' = updateLoop
             /\ outstanding' = outstanding \ {jqXHR}
             /\ jqXHR \in outstanding => lastResult' = "abort"]_vars
    /\ []((last.op = "tick" /\ lastResult = "abort" /\ ~ inArray("abort", abortOn)) =>
             /\ last.armed
             /\ ~ paused => (last.issued \/ outstanding # {}))

\* A tick after an aborted fetch issued the next fetch and armed the next timer.
C12_Witness ==
    /\ last.op = "tick"
    /\ lastResult = "abort"
    /\ ~ inArray("abort", abortOn)
    /\ last.issued
    /\ last.armed

\* C13: once a fetch of liveAjax has completed, xhrStatus() returns its text
\* status, the value recorded as lastResult.
C13_XhrStatusIsLastResult ==
    lastResult # "undefined" => xhrStatus = JsString(lastResult)

\* C14: when a fetch issued by reload( force, done, fail, always ) is over,
\* done and always have each been called once and fail not at all if it
\* succeeded, fail and always once and done not at all if it failed.  (A
\* success whose response processing raised is left out.)
C14_ReloadCallbacksFire ==
    (last.op = "xhr" /\ last.withCallbacks /\ ~ last.threw) =>
        LET n(f) == Cardinality({i \in DOMAIN last.invoked : last.invoked[i] = f})
        IN /\ n("always") = 1
           /\ lastResult \in SuccessStatuses => n("done") = 1 /\ n("fail") = 0
           /\ lastResult \notin SuccessStatuses => n("fail") = 1 /\ n("done") = 0

(***************************************************************************)
(* Claims about the reconciler, under SpecReconciler.                      *)
(***************************************************************************)

\* Every row of the collection carries the row identifier.
AllCarryRowId(coll) == \A i \in DOMAIN coll : HasOwn(coll[i], rowId)

\* The identifiers of a collection, as strings.
Identifiers(coll) == {String(Get(coll[i], rowId)) : i \in DOMAIN coll}

\* The rows of a collection under the identifier k.
RowsOf(coll, k) == {coll[i] : i \in {j \in DOMAIN coll : String(Get(coll[j], rowId)) = k}}

\* The reconciler returned, and the groups of what it returned (empty when
\* it returned null).
Reconciled == changes # Pending /\ ~ changes.threw
Created == IF changes.value = JsNull THEN << >> ELSE changes.value.create
Deleted == IF changes.value = JsNull THEN << >> ELSE changes.value.delete
Updated == IF changes.value = JsNull THEN << >> ELSE changes.value.update

Occurrences(seq, x) == Cardinality({i \in DOMAIN seq : seq[i] = x})

\* C15: when every row carries the identifier the reconciler returns, each
\* identifier of previous that current lacks is in the delete list exactly
\* once, as a string, and nothing else is in the list; with an empty current
\* the list holds every identifier of previous.
C15_DeletedAreTheMissing ==
    (changes # Pending /\ AllCarryRowId(previous) /\ AllCarryRowId(current)) =>
        /\ Reconciled
        /\ \A k \in Identifiers(previous) \ Identifiers(current) :
              Occurrences(Deleted, k) = 1
        /\ \A i \in DOMAIN Deleted :
              Deleted[i] \in Identifiers(previous) \ Identifiers(current)
        /\ current = << >> =>
              {Deleted[i] : i \in DOMAIN Deleted} = Identifiers(previous)

\* Of the two identifiers of previous one is missing from current and deleted.
C15_Witness ==
    /\ Reconciled
    /\ Cardinality(Identifiers(previous)) = 2
    /\ Cardinality(Identifiers(previous) \cap Identifiers(current)) = 1
    /\ Len(Deleted) = 1

\* No identifier occurs in two rows of the collection.
UniqueRowIds(coll) ==
    \A i, j \in DOMAIN coll :
        String(Get(coll[i], rowId)) = String(Get(coll[j], rowId)) => i = j

\* The rows of current whose identifier previous lacks.
NewRows == {current[i] : i \in {j \in DOMAIN current :
                String(Get(current[j], rowId)) \notin Identifiers(previous)}}

\* C16: each row of current whose identifier previous lacks is in the create
\* list exactly once, and the create list has those rows in the order
\* current has them, whether the identifiers are numbers, numeric strings or
\* other strings.  (Stated for collections in which no identifier occurs
\* twice.)
C16_CreatedKeepOrder ==
    (/\ changes # Pending
     /\ AllCarryRowId(previous) /\ AllCarryRowId(current)
     /\ UniqueRowIds(current)) =>
        /\ Reconciled
        /\ \A r \in NewRows : Occurrences(Created, r) = 1
        /\ SelectSeq(Created, LAMBDA r : r \in NewRows)
              = SelectSeq(current, LAMBDA r : r \in NewRows)

\* Two rows hold the same property/value pairs, in whatever order.
SameContent(r1, r2) == {r1[i] : i \in DOMAIN r1} = {r2[i] : i \in DOMAIN r2}

\* C17: an identifier that previous and current both have, with rows that
\* differ, is in the update map with a row current has under it, and is in
\* neither the create nor the delete list; by identifier the three groups
\* are pairwise disjoint.  (With an identifier in several rows of a
\* collection: no row of previous under it has the content of a row of
\* current under it; the row the map holds is the last current has under
\* it.)
C17_UpdatedAreTheChanged ==
    (changes # Pending /\ AllCarryRowId(previous) /\ AllCarryRowId(current)) =>
        LET created == {String(Get(Created[i], rowId)) : i \in DOMAIN Created}
            deleted == {Deleted[i] : i \in DOMAIN Deleted}
            updated == {Updated[i].name : i \in DOMAIN Updated}
        IN /\ Reconciled
           /\ \A k \in Identifiers(previous) \cap Identifiers(current) :
                 (\A a \in RowsOf(previous, k), b \in RowsOf(current, k) :
                     ~ SameContent(a, b)) =>
                    /\ k \in updated
                    /\ Get(Updated, k) \in RowsOf(current, k)
                    /\ \A j \in DOMAIN current :
                          String(Get(current[j], rowId)) = k =>
                             \E i \in j..Len(current) : current[i] = Get(Updated, k)
                    /\ k \notin created \cup deleted
           /\ created \cap deleted = {}
           /\ created \cap updated = {}
           /\ deleted \cap updated = {}

\* One identifier is updated, another created and a third deleted.
C17_Witness ==
    /\ Reconciled
    /\ Len(Updated) = 1
    /\ Get(Updated, Updated[1].name) \in RowsOf(current, Updated[1].name)
    /\ RowsOf(previous, Updated[1].name) # {}
    /\ Len(Created) = 1
    /\ Len(Deleted) = 1

\* The rows previous and current have under the identifier k hold the same
\* property/value pairs.
SameRowUnder(k) ==
    \A a \in RowsOf(previous, k), b \in RowsOf(current, k) : SameContent(a, b)

\* C18: an identifier whose row in previous and row in current hold the
\* same property/value pairs, in whatever order, is not in the update map;
\* when the two collections have the same identifiers and every identifier
\* such rows, the reconciler returns null.  (Stated for collections in which
\* no identifier occurs twice.)
C18_RowEqualityIgnoresOrder ==
    (/\ changes # Pending
     /\ AllCarryRowId(previous) /\ AllCarryRowId(current)
     /\ UniqueRowIds(previous) /\ UniqueRowIds(current)) =>
        /\ Reconciled
        /\ \A k \in Identifiers(previous) \cap Identifiers(current) :
              SameRowUnder(k) => ~ HasOwn(Updated, k)
        /\ (/\ Identifiers(previous) = Identifiers(current)
            /\ \A k \in Identifiers(previous) : SameRowUnder(k))
              => changes.value = JsNull

\* The two collections hold the same rows the same number of times.
SameRows(a, b) ==
    /\ Len(a) = Len(b)
    /\ \A r \in Rows : Occurrences(a, r) = Occurrences(b, r)

\* C19: two collections that hold the same rows, in whatever row order and
\* also when an identifier occurs in several rows, reconcile to null.
C19_SameRowsReconcileToNull ==
    (/\ changes # Pending
     /\ AllCarryRowId(previous) /\ AllCarryRowId(current)
     /\ SameRows(previous, current)) =>
        /\ Reconciled
        /\ changes.value = JsNull

\* C19, amended: two collections that hold the same rows in whatever row
\* order, no identifier in two rows, reconcile to null; and a collection
\* reconciles to null against itself, an identifier in several rows or
\* not, also when it has just been the current of a reconciliation.
C19_SameRowsUniqueIdsReconcileToNull ==
    (changes # Pending /\ AllCarryRowId(previous) /\ AllCarryRowId(current)) =>
        /\ (SameRows(previous, current) /\ UniqueRowIds(current)) =>
              Reconciled /\ changes.value = JsNull
        /\ previous = current =>
              Reconciled /\ changes.value = JsNull

\* Two rows in the opposite order reconciled to null.
C19_Witness ==
    /\ Reconciled
    /\ Len(previous) = 2
    /\ previous # current
    /\ SameRows(previous, current)
    /\ UniqueRowIds(current)
    /\ changes.value = JsNull

(***************************************************************************)
(* Claims about the processing of a response, under SpecResponses.         *)
(***************************************************************************)

\* The last response was processed to the end.
Processed == processed # Idle /\ ~ processed.threw

\* The last response differs from the snapshot it was compared with: the
\* reconciler returned updates, or, the first row lacking the identifier,
\* the two collections differ.
ChangesDetected ==
    IF HasOwn(processed.json.data[1], rowId)
    THEN processed.updates # JsNull
    ELSE processed.previousJson.data # processed.json.data

CallsOf(fns) == {i \in DOMAIN processed.calls : processed.calls[i].fn \in fns}

\* C20: a response that brings no changes makes _processNewJson fire the
\* noUpdate event, and call the noUpdate callback when one is configured,
\* with the response, and nothing else: no row is added, removed or
\* updated and draw is not called.  draw is called exactly when changes
\* were detected.
C20_NoUpdateLeavesTableAlone ==
    Processed =>
        /\ ~ ChangesDetected =>
              /\ CallsOf({"row.data", "rows.remove", "rows.add", "clear"}) = {}
              /\ CallsOf({"draw"}) = {}
              /\ processed.calls =
                    <<[fn |-> "event", name |-> "noUpdate", json |-> processed.json]>>
                    \o (IF callbacks.noUpdate # JsUndefined
                        THEN <<[fn |-> "callback", name |-> "noUpdate",
                                json |-> processed.json]>>
                        ELSE << >>)
        /\ CallsOf({"draw"}) # {} <=> ChangesDetected

\* Two rows came back as they were and the configured noUpdate was called.
C20_Witness ==
    /\ Processed
    /\ processed.updates = JsNull
    /\ Len(processed.json.data) = 2
    /\ callbacks.noUpdate # JsUndefined
    /\ Len(processed.calls) = 2
    /\ processed.calls[2].fn = "callback"

(***************************************************************************)
(* Claims about one response against one snapshot, under SpecChangeSets.   *)
(***************************************************************************)

\* No row of the collection carries the row identifier.
NoRowId(coll) == \A i \in DOMAIN coll : ~ HasOwn(coll[i], rowId)

\* The notification of an update or of no update, and the configured
\* callback after it.
Notified(name, event) ==
    <<event>> \o (IF callbacks[name] # JsUndefined
                  THEN <<[event EXCEPT !.fn = "callback"]>>
                  ELSE << >>)

\* C21: when neither the snapshot nor the response has a row with the
\* identifier, processing the response raises no error; a response whose
\* collection differs from the snapshot's clears the table, adds the rows
\* of the response in their order, draws and notifies onUpdate; a response
\* whose collection equals the snapshot's only notifies noUpdate; either
\* way the response becomes the snapshot.
C21_WholeTableReplace ==
    (/\ processed # Idle
     /\ NoRowId(processed.previousJson.data)
     /\ NoRowId(processed.json.data)) =>
        /\ ~ processed.threw
        /\ previousJson = processed.json
        /\ processed.previousJson.data # processed.json.data =>
              processed.calls =
                 <<[fn |-> "clear"],
                   [fn |-> "rows.add", data |-> processed.json.data],
                   [fn |-> "draw"]>>
                 \o Notified("onUpdate", [fn |-> "event", name |-> "onUpdate",
                                          updates |-> JsUndefined,
                                          json |-> processed.json])
        /\ processed.previousJson.data = processed.json.data =>
              processed.calls =
                 Notified("noUpdate", [fn |-> "event", name |-> "noUpdate",
                                       json |-> processed.json])

\* The response was reconciled by identifier and brought changes.
UpdatesApplied ==
    /\ Processed
    /\ HasOwn(processed.json.data[1], rowId)
    /\ processed.updates # JsNull

\* Every call of fnsA came before every call of fnsB.
Before(fnsA, fnsB) == \A i \in CallsOf(fnsA), j \in CallsOf(fnsB) : i < j

\* C30: the changes of a response are applied as removals, then updates,
\* then insertions, and the table is drawn once, after them.
C30_DeleteUpdateCreateDraw ==
    UpdatesApplied =>
        /\ Before({"rows.remove"}, {"row.data"})
        /\ Before({"row.data"}, {"rows.add"})
        /\ Before({"rows.remove"}, {"rows.add"})
        /\ Before({"row.data", "rows.remove", "rows.add"}, {"draw"})
        /\ Cardinality(CallsOf({"draw"})) = 1

\* C30, amended: the changes of a response are applied as updates (one
\* call for each row of the update map), then one removal of all the rows
\* of the delete list, then one insertion of all the rows of the create
\* list, and the table is drawn once, after them: every removal comes
\* before every insertion.
C30_UpdateDeleteCreateDraw ==
    UpdatesApplied =>
        /\ Before({"row.data"}, {"rows.remove"})
        /\ Before({"row.data"}, {"rows.add"})
        /\ Before({"rows.remove"}, {"rows.add"})
        /\ Before({"row.data", "rows.remove", "rows.add"}, {"draw"})
        /\ Cardinality(CallsOf({"draw"})) = 1
        /\ Cardinality(CallsOf({"row.data"})) = Len(processed.updates.update)
        /\ Cardinality(CallsOf({"rows.remove"})) =
              (IF Len(processed.updates.delete) # 0 THEN 1 ELSE 0)
        /\ Cardinality(CallsOf({"rows.add"})) =
              (IF Len(processed.updates.create) # 0 THEN 1 ELSE 0)
        /\ \A i \in CallsOf({"rows.add"}) :
              processed.calls[i].data = processed.updates.create

\* One response updated a row, removed another and added a third.
C30_Witness ==
    /\ UpdatesApplied
    /\ Len(processed.updates.update) = 1
    /\ Len(processed.updates.delete) = 1
    /\ Len(processed.updates.create) = 1
    /\ CallsOf({"draw"}) # {}

(***************************************************************************)
(* Claims about the ticks of the polling session, under Spec.              *)
(***************************************************************************)

\* C24: a tick that is skipped, the session paused or a fetch outstanding,
\* issues no fetch, fires xhrSkipped and arms the timer of the next tick.
C24_SkippedTickRearms ==
    (last.op = "tick" /\ last.skip # "none") =>
        /\ ~ last.issued
        /\ ~ last.threw
        /\ last.armed

\* C25: the reason of an xhrSkipped notification is "processing" exactly
\* when a fetch is outstanding, and "paused" when none is and the session is
\* paused.  (A skip changes neither, so both can be read after it.  Stated
\* for the skips of a loop no abortOn status has stopped.)
C25_SkipReasonNamesCause ==
    (last.skip # "none" /\ ~ stoppedByStatus) =>
        /\ last.skip = "processing" <=> outstanding # {}
        /\ (outstanding = {} /\ paused) => last.skip = "paused"

\* C27: a tick that issues a fetch does not arm the timer of the next tick:
\* no timer is armed while the fetch of a tick is outstanding.
C27_TimerArmedAfterOutcome ==
    (last.op = "tick" /\ last.issued) => ~ last.armed

\* C26: when an abortOn status has stopped the loop (no timer pending, no
\* fetch outstanding) and initiate() is called, the tick of the timer it
\* arms issues a fetch, the session not being paused, and arms the timer of
\* the tick after it, so that more than one tick fires.
C26_InitiateResumesPolling ==
    [][(last.op = "initiate" /\ last.fromStopped /\ ~ paused /\ last'.op = "tick") =>
          (last'.issued /\ last'.armed)]_vars

\* C28: once clearTimeout() has been called or an abortOn status has
\* stopped the loop, and until the loop is started again, no response of a
\* fetch is applied to the table.
C28_NoLateResponseApplied ==
    (clearedSince \/ stoppedByStatus) => ~ (last.op = "xhr" /\ last.applied)

(***************************************************************************)
(* Claims about handlers that call the API inside a tick, under            *)
(* SpecHandlers.                                                           *)
(***************************************************************************)

\* The tick was skipped and the handler bound to xhrSkipped ran.
HandlerRan(handler) ==
    last.op = "tick" /\ last.skip # "none" /\ last.arg = JsString(handler)

\* C29: a tick in which the xhrSkipped handler called clearTimeout() arms
\* no timer, and none is pending after it; one in which it called pause()
\* leaves the session paused, one in which it called setInterval( 1000 )
\* leaves the interval at max( 1500, 1000 ), the delay of the timers armed
\* from then on.
C29_ReentrantCallsHonored ==
    /\ HandlerRan("clearTimeout") => (~ last.armed /\ timers = << >>)
    /\ HandlerRan("pause") => paused
    /\ HandlerRan("setInterval") =>
          /\ interval = _minInterval
          /\ last.armed => timers[updateLoop] = _minInterval

(***************************************************************************)
(* Claims about a page with two tables, under SpecTables.                  *)
(***************************************************************************)

\* C23: pause(), resume(), togglePause(), setInterval(), clearTimeout(),
\* abortXhr(), reload() and the destroy.dt of this table leave the other
\* table's paused flag, interval, snapshot, pending timers and outstanding
\* fetch as they were, and its _destroyCallback attached.
C23_SessionsAreIndependent ==
    [][last'.op \in {"pause", "resume", "togglePause", "setInterval", "clearTimeout",
                     "abortXhr", "reload", "destroy"} =>
          /\ otherTable'.liveAjax.paused = otherTable.liveAjax.paused
          /\ otherTable'.liveAjax.interval = otherTable.liveAjax.interval
          /\ otherTable'.previousJson = otherTable.previousJson
          /\ otherTable'.liveAjax.timers = otherTable.liveAjax.timers
          /\ otherTable'.liveAjax.updateLoop = otherTable.liveAjax.updateLoop
          /\ otherTable'.liveAjax.outstanding = otherTable.liveAjax.outstanding
          /\ otherTable'.liveAjax.readyState = otherTable.liveAjax.readyState
          /\ otherTable'.liveAjax.destroyBound = otherTable.liveAjax.destroyBound]_vars

\* This table, in a child row of the other, has been destroyed with a fetch
\* outstanding; the other still has its timer pending and its fetch
\* outstanding.
C23_Witness ==
    /\ last.op = "destroy"
    /\ lastResult = "abort"
    /\ otherTable.ancestor
    /\ otherTable.liveAjax.destroyBound
    /\ otherTable.liveAjax.paused
    /\ otherTable.liveAjax.timers # << >>
    /\ otherTable.liveAjax.outstanding # {}

(***************************************************************************)
(* Claims about init.dt, under SpecInit.                                   *)
(***************************************************************************)

\* liveAjax is true or an object of settings.
LiveAjaxEnabled == oInit = JsTrue \/ isPlainObject(oInit)

\* dtSettings.liveAjax has not been created and nothing of a session is
\* there: no timer, no fetch, no _destroyCallback.
NoSession ==
    /\ paused = JsUndefined
    /\ interval = JsUndefined
    /\ initInterval = JsUndefined
    /\ abortOn = JsUndefined
    /\ updateLoop = JsUndefined
    /\ lastResult = JsUndefined
    /\ timers = << >>
    /\ outstanding = {}
    /\ ~ destroyBound
    /\ ~ last.armed
    /\ ~ last.issued

C31_SnapshotReplacedOnChangesOnly ==
    Processed =>
        IF ChangesDetected
        THEN previousJson = processed.json
        ELSE previousJson = processed.previousJson

(***************************************************************************)
(* Claims about the index by identifier, under SpecReconciler.             *)
(***************************************************************************)

\* The position, counted from 0 as $.each counts, of the first row of the
\* collection without the identifier.
FirstWithoutRowId(coll) ==
    Min({i \in DOMAIN coll : ~ HasOwn(coll[i], rowId)}) - 1

\* C32: indexing a collection in which some row lacks the identifier, the
\* first row included, raises an error that names the position of the
\* first such row, and returns no index.
C32_MissingKeyNamesPosition ==
    (changes # Pending /\ ~ AllCarryRowId(previous)) =>
        /\ changes.threw
        /\ changes.error =
              "Unable to parse data set, key \"" \o rowId
              \o "\" not found at instance # "
              \o ToString(FirstWithoutRowId(previous))

(***************************************************************************)
(* Claims about structural errors, under SpecResponses.                    *)
(***************************************************************************)

\* The last response was handed to the reconciler (its first row carries
\* the identifier) and a row of the snapshot or of the response lacks the
\* identifier.
StructuralError ==
    /\ processed # Idle
    /\ Len(processed.json.data) # 0
    /\ HasOwn(processed.json.data[1], rowId)
    /\ \/ ~ AllCarryRowId(processed.previousJson.data)
       \/ ~ AllCarryRowId(processed.json.data)

\* C33: when the reconciler raises a structural error on a response, the
\* error leaves _processNewJson (it is not caught), and nothing was done
\* before it: no row added, removed or updated, no draw, no onUpdate and
\* no noUpdate, event or callback.
C33_StructuralErrorHaltsProcessing ==
    StructuralError =>
        /\ processed.threw
        /\ processed.calls = << >>

\* A response whose second row lacks the identifier, against a snapshot
\* whose rows all carry it, with the callbacks configured.
C33_Witness ==
    /\ StructuralError
    /\ Len(processed.previousJson.data) # 0
    /\ AllCarryRowId(processed.previousJson.data)
    /\ callbacks.onUpdate # JsUndefined
    /\ processed.threw

\* C34: with the row identifier configured and the snapshot indexed by it,
\* a response in which some row, the first included, lacks the identifier
\* raises an error and the table is never cleared and refilled.
C34_ModeIndependentOfResponse ==
    (/\ processed # Idle
     /\ Len(processed.previousJson.data) # 0
     /\ AllCarryRowId(processed.previousJson.data)
     /\ Len(processed.json.data) # 0
     /\ ~ AllCarryRowId(processed.json.data)) =>
        /\ processed.threw
        /\ CallsOf({"clear"}) = {}

(***************************************************************************)
(* Claims about the table after a response, under SpecChangeSets.          *)
(***************************************************************************)

\* The table that holds the keyed index of the snapshot the last response
\* was compared with, and that table after the calls of _processNewJson.
TableBefore ==
    LET index == _fnKeyStructData(rowId, processed.previousJson.data).value
    IN [i \in DOMAIN index |-> index[i].value]
TableAfter == ApiCalls(TableBefore, processed.calls, 1)

\* The last row of the collection under the identifier k.
LastOccurrence(coll, k) ==
    coll[CHOOSE i \in DOMAIN coll :
            /\ String(Get(coll[i], rowId)) = k
            /\ \A j \in DOMAIN coll : String(Get(coll[j], rowId)) = k => j <= i]

\* C35: when the table holds the keyed index of the snapshot and every row
\* of a non-empty response carries the identifier, the response is
\* processed without error and the table then holds, for each identifier
\* of the response, one row, the last of the response under that
\* identifier, and no other row.
C35_TableBecomesIndexOfResponse ==
    (/\ processed # Idle
     /\ AllCarryRowId(processed.previousJson.data)
     /\ Len(processed.json.data) # 0
     /\ AllCarryRowId(processed.json.data)) =>
        /\ ~ processed.threw
        /\ Len(TableAfter) = Cardinality(Identifiers(processed.json.data))
        /\ \A k \in Identifiers(processed.json.data) :
              \E i \in DOMAIN TableAfter :
                 TableAfter[i] = LastOccurrence(processed.json.data, k)
        /\ \A i \in DOMAIN TableAfter :
              /\ HasOwn(TableAfter[i], rowId)
              /\ String(Get(TableAfter[i], rowId)) \in Identifiers(processed.json.data)

\* The response names one identifier twice with different data; the table
\* held two rows, one of which was updated to the later data and the other
\* removed.
C35_Witness ==
    /\ processed # Idle
    /\ ~ processed.threw
    /\ AllCarryRowId(processed.previousJson.data)
    /\ Len(TableBefore) = 2
    /\ Len(processed.json.data) = 2
    /\ AllCarryRowId(processed.json.data)
    /\ Cardinality(Identifiers(processed.json.data)) = 1
    /\ processed.json.data[1] # processed.json.data[2]
    /\ CallsOf({"row.data"}) # {}
    /\ CallsOf({"rows.remove"}) # {}
    /\ TableAfter = <<processed.json.data[2]>>

(***************************************************************************)
(* Claims about the notifications, under SpecResponses.                    *)
(***************************************************************************)

\* The notifications of the last response: the events fired and the
\* configured callbacks called, by name.
Events(name) ==
    {i \in CallsOf({"event"}) : processed.calls[i].name = name}
Callbacks(name) ==
    {i \in CallsOf({"callback"}) : processed.calls[i].name = name}

\* C36: every successful response fires exactly one of the events onUpdate
\* and noUpdate, once, and calls the configured callback of that name and
\* not the other.
C36_ExactlyOneNotification ==
    processed # Idle =>
        /\ Cardinality(Events("onUpdate") \cup Events("noUpdate")) = 1
        /\ \A name \in {"onUpdate", "noUpdate"} :
              Cardinality(Callbacks(name)) =
                 (IF Events(name) # {} /\ callbacks[name] # JsUndefined THEN 1 ELSE 0)

(***************************************************************************)
(* Claims about the table while the session is paused, under Spec.         *)
(***************************************************************************)

\* C37: while the session is paused no response is applied to the table
\* (no row added, removed or updated, no draw), a response to a fetch that
\* was outstanding when pause() was called included.
C37_PausedTableUntouched ==
    paused => ~ (last.op = "xhr" /\ last.applied)

(***************************************************************************)
(* Claims about setInterval(), under Spec.                                 *)
(***************************************************************************)

\* C38: setInterval( int, immediate ), whatever immediate is, leaves an
\* outstanding fetch running and leaves lastResult, the paused flag and
\* the snapshot as they were.
C38_SetIntervalTouchesTimerOnly ==
    [][last'.op = "setInterval" =>
          /\ outstanding' = outstanding
          /\ lastResult' = lastResult
          /\ paused' = paused
          /\ previousJson' = previousJson]_vars

(***************************************************************************)
(* Claims about the life of the polling loop, under SpecLoop.              *)
(***************************************************************************)

C40_AbortStatusStopsForGood ==
    stoppedByStatus ~> (timers = << >>)

====
